---- MODULE Spec2Model ----
(***************************************************************************)
(* Cluster coordination of the Notion / Google Calendar sync workers:      *)
(* lease-bound membership under /nodes/, partition locks under             *)
(* /sync_locks/, the per-tick reconciliation of the locks and the queries  *)
(* that follow it, together with the pure helpers (sharding, prefix        *)
(* range end).                                                             *)
(***************************************************************************)
EXTENDS Integers, Sequences, FiniteSets, TLC

\* ------------------------------------------------------------------ bounds
\* Worker processes of the fleet.
MaxNodes == 2
\* main.rs:133 compiles in 21 partitions; the model runs with a smaller count.
total_number_of_sync_partitions == 4
\* Leases the store grants in one behaviour (one per boot of a process).
MaxLeases == 3
\* The same, in the behaviours checked for liveness.
MaxFairLeases == 2
\* Inputs of the sharding rule checked on its own.
MaxShardWorkers == 5
MaxShardPartitions == 9
\* Length (in chars) of the prefixes given to calculate_prefix_range_end.
MaxPrefixLen == 2

\* Hostnames, in the store's (lexicographic) key order.
AllNames == <<"a", "b", "c", "d">>
Procs == 1..MaxNodes
Names == {AllNames[i] : i \in Procs}
Partitions == 0..(total_number_of_sync_partitions - 1)
LeaseIds == 1..MaxLeases

\* cluster_management.rs:15-16
REPLICA_PREFIX == "/nodes/"
SYNC_LOCK_PREFIX == "/sync_locks/"

\* An absent key of the store: etcd reports version 0 for it.
NoLock == [value |-> "", lease |-> 0, version |-> 0]

VARIABLES
    \* ---- the coordination store (etcd)
    leases,      \* leases[l]: the process lease l was granted to, 0 = not live
    nextLease,   \* the id the next LeaseGrant returns
    leaseCap,    \* the last id the store grants in this behaviour
    nodeKeys,    \* nodeKeys[name]: lease of key /nodes/<name>, 0 = key absent
    locks,       \* locks[n]: [value, lease, version] of key /sync_locks/<n>
    \* ---- one worker process
    node_name,   \* settings.node_name (HOSTNAME)
    sup,         \* supervisor position: off, register, running, dead
    lease,       \* lease.id the supervisor holds, 0 = none
    pc,          \* pipeline position within a tick
    shouldOwn,   \* partitions computed from the membership snapshot
    todo,        \* partitions the current transaction loop still has to visit
    confirmed,   \* result of the post-reconciliation read
    queried,     \* partitions get_sync_records_for_partitions spawned a query for
    \* ---- history (read by the properties only)
    holders,     \* holders[n]: processes whose claim on n succeeded and stands
    lost,        \* lost[p]: partitions whose claim p lost to another node this tick
    clean,       \* 0 disturbed, 1 in an undisturbed run, 2 an undisturbed run is done
    fullTicks,   \* full ticks of p begun after the last fleet change (at most 2)
    cur,         \* 0 tick began before the last fleet change, 1 after, 2 after every
                 \*   live node finished a full tick
    r2,          \* p finished a tick of kind 2
    hist,        \* whether this behaviour records the history above
    \* ---- the pure helpers, applied to one input
    calc,
    \* ---- one lease keep-alive task, with its clock (etcd.rs)
    ka,
    \* ---- one node's supervisor and the tasks it spawns (lib.rs)
    sv,
    \* ---- one call of a retry helper (lib.rs:283-399)
    rt,
    \* ---- one call of run (lib.rs:27-128)
    rn,
    \* ---- one call of get_sync_records_for_partitions (aws.rs:163-210)
    qr,
    \* ---- the job loop of one pipeline task (lib.rs:526-606)
    jb,
    \* ---- the main function and its background tasks, with a clock (main.rs)
    mn

\* The keep-alive task and the supervisor where they are not looked at.
KaOff == [phase |-> "off"]
SvOff == [phase |-> "off"]

\* The helpers and the job loop where they are not looked at.
RtOff == [phase |-> "off"]
RnOff == [phase |-> "off"]
QrOff == [phase |-> "off"]
JbOff == [phase |-> "off"]
MnOff == [phase |-> "off"]
auxVars == <<rt, rn, qr, jb, mn>>
AuxOff == rt = RtOff /\ rn = RnOff /\ qr = QrOff /\ jb = JbOff /\ mn = MnOff

storeVars == <<leases, nextLease, leaseCap, nodeKeys, locks>>
procVars == <<node_name, sup, lease, pc, shouldOwn, todo, confirmed, queried>>
histVars == <<holders, lost, clean, fullTicks, cur, r2, hist>>
vars == <<leases, nextLease, leaseCap, nodeKeys, locks, node_name, sup, lease, pc, shouldOwn,
          todo, confirmed, queried, holders, lost, clean, fullTicks, cur, r2, hist,
          calc, ka, sv, rt, rn, qr, jb, mn>>

\* ------------------------------------------------------------- small helpers
Min(S) == CHOOSE x \in S : \A y \in S : x <= y
SeqRange(s) == {s[i] : i \in DOMAIN s}
Live == {p \in Procs : sup[p] = "running"}

\* --------------------------------------------------------- sharding (main.rs)
\* (start..end).step_by(step).collect()
RECURSIVE StepBy(_, _, _)
StepBy(start, end, step) ==
    IF start >= end THEN <<>> ELSE <<start>> \o StepBy(start + step, end, step)

\* A sharding rule that ignores the fleet size (steps by one).
sync_records_to_claim_NoStride(current_worker_index, workers_count, total) ==
    StepBy(current_worker_index, total, 1)

\* main.rs:135-140
sync_records_to_claim(current_worker_index, workers_count, total) ==
    StepBy(current_worker_index, total, workers_count)

\* ------------------------------------------------- membership snapshot
\* Range(/nodes/ .. /nodes0): the keys present, in key order, prefix stripped
\* (cluster_management.rs:135-151, main.rs:116-125).
RECURSIVE WorkerRecordsFrom(_)
WorkerRecordsFrom(k) ==
    IF k > Len(AllNames) THEN <<>>
    ELSE (IF AllNames[k] \in Names /\ nodeKeys[AllNames[k]] # 0
          THEN <<AllNames[k]>> ELSE <<>>) \o WorkerRecordsFrom(k + 1)
get_all_worker_records == WorkerRecordsFrom(1)

\* An index counted from one.
current_worker_index_OneBased(mapped_kv, name) ==
    IF \E i \in DOMAIN mapped_kv : mapped_kv[i] = name
    THEN Min({i \in DOMAIN mapped_kv : mapped_kv[i] = name})
    ELSE -1

\* mapped_kv.iter().position(|x| *x == node_name): -1 stands for None (main.rs:127)
current_worker_index(mapped_kv, name) ==
    IF \E i \in DOMAIN mapped_kv : mapped_kv[i] = name
    THEN Min({i \in DOMAIN mapped_kv : mapped_kv[i] = name}) - 1
    ELSE -1

\* ------------------------------------------------------------ history updates
\* A behaviour that records no history leaves the history variables alone.
Rec(new, old) == IF hist THEN new ELSE old
OthersDisturbed(p, mine, changed) ==
    Rec([q \in Procs |-> IF q = p THEN mine ELSE IF changed THEN 0 ELSE clean[q]],
        clean)
FleetChange ==
    /\ clean' = Rec([q \in Procs |-> 0], clean)
    /\ fullTicks' = Rec([q \in Procs |-> 0], fullTicks)
    /\ cur' = Rec([q \in Procs |-> 0], cur)
    /\ r2' = Rec([q \in Procs |-> FALSE], r2)
    /\ hist' = hist

\* ---------------------------------------------------------------- supervisor
\* A process boots (or is restarted after a crash) and is granted a lease:
\* create_lease, LeaseGrantRequest {id: 0, ttl: 30} (etcd.rs:81-89,
\* cluster_management.rs:47).
AcquireLease(p) ==
    /\ sup[p] \in {"off", "dead"}
    /\ nextLease <= leaseCap
    /\ leases' = [leases EXCEPT ![nextLease] = p]
    /\ lease' = [lease EXCEPT ![p] = nextLease]
    /\ nextLease' = nextLease + 1
    /\ sup' = [sup EXCEPT ![p] = "register"]
    /\ FleetChange
    /\ UNCHANGED <<leaseCap, nodeKeys, locks, node_name, pc, shouldOwn, todo,
                   confirmed, queried, holders, lost, calc, ka, sv, auxVars>>

\* record_node_membership: Put /nodes/<hostname> = "replica" with the lease
\* (cluster_management.rs:95-110); then the supervisor spawns the keep-alive
\* and the pipeline (lib.rs:463-474).
record_node_membership(p) ==
    /\ sup[p] = "register"
    /\ nodeKeys' = [nodeKeys EXCEPT ![node_name[p]] = lease[p]]
    /\ sup' = [sup EXCEPT ![p] = "running"]
    /\ pc' = [pc EXCEPT ![p] = "tick"]
    /\ FleetChange
    /\ UNCHANGED <<leases, nextLease, leaseCap, locks, node_name, lease, shouldOwn,
                   todo, confirmed, queried, holders, lost, calc, ka, sv, auxVars>>

\* The process is killed: nothing of it survives (workers are stateless);
\* its lease stays in the store until the TTL runs out.
Kill(p) ==
    /\ sup[p] \in {"register", "running"}
    /\ sup' = [sup EXCEPT ![p] = "dead"]
    /\ lease' = [lease EXCEPT ![p] = 0]
    /\ pc' = [pc EXCEPT ![p] = "none"]
    /\ shouldOwn' = [shouldOwn EXCEPT ![p] = {}]
    /\ todo' = [todo EXCEPT ![p] = {}]
    /\ confirmed' = [confirmed EXCEPT ![p] = {}]
    /\ queried' = [queried EXCEPT ![p] = {}]
    /\ lost' = Rec([lost EXCEPT ![p] = {}], lost)
    /\ FleetChange
    /\ UNCHANGED <<storeVars, node_name, holders, calc, ka, sv, auxVars>>

\* The TTL of a lease nobody refreshes runs out: the store removes the lease
\* and every key attached to it. Leases of one host run out oldest first.
LeaseExpire(l) ==
    /\ leases[l] # 0
    /\ lease[leases[l]] # l
    /\ \A k \in LeaseIds : k < l => leases[k] # leases[l]
    /\ leases' = [leases EXCEPT ![l] = 0]
    /\ nodeKeys' = [nm \in Names |-> IF nodeKeys[nm] = l THEN 0 ELSE nodeKeys[nm]]
    /\ locks' = [n \in Partitions |-> IF locks[n].lease = l THEN NoLock ELSE locks[n]]
    /\ holders' = Rec([n \in Partitions |->
                            IF locks[n].lease = l THEN {} ELSE holders[n]], holders)
    /\ FleetChange
    /\ UNCHANGED <<nextLease, leaseCap, procVars, lost, calc, ka, sv, auxVars>>

\* ------------------------------------------------ the store's transactions
\* A claim whose compare is dropped: the Put always runs.
ClaimCompare_Always(lock) == TRUE

\* Txn compare of a claim: version(/sync_locks/<n>) == 0.
ClaimCompare(lock) == lock.version = 0

\* A release whose compare is dropped: the DeleteRange always runs.
ReleaseCompare_Always(lock, name) == TRUE

\* Txn compare of a release: value(/sync_locks/<n>) == node_id.
ReleaseCompare(lock, name) == lock.value = name

\* --------------------------------------------------------------- the pipeline
\* What the transaction loops visit after the membership snapshot: first the
\* partitions to release, then the partitions to claim, then the read.
AfterRelease(own) == IF own = {} THEN "read" ELSE "claim"

\* A Balancer that answers a missing membership key with the locks it finds.
confirmed_when_absent_FromStore(p) ==
    {n \in Partitions : locks[n].value = node_name[p]}

\* The confirmed set of a node that is not in the membership snapshot.
confirmed_when_absent(p) == {}

\* establish_correct_sync_partition_locks, step 1: read /nodes/, find this
\* node's index, compute the shard (main.rs:114-140). A node that is not in the
\* snapshot returns the empty confirmed set.
ReadMembers(p) ==
    LET mapped_kv == get_all_worker_records
        idx == current_worker_index(mapped_kv, node_name[p])
        workers_count == Len(mapped_kv)
        own == IF idx = -1 THEN {}
               ELSE SeqRange(sync_records_to_claim(idx, workers_count,
                                                   total_number_of_sync_partitions))
        rel == Partitions \ own
    IN  /\ sup[p] = "running"
        /\ pc[p] = "tick"
        /\ IF idx = -1
           THEN /\ pc' = [pc EXCEPT ![p] = "query"]
                /\ shouldOwn' = [shouldOwn EXCEPT ![p] = {}]
                /\ todo' = [todo EXCEPT ![p] = {}]
                /\ confirmed' = [confirmed EXCEPT ![p] = confirmed_when_absent(p)]
           ELSE /\ pc' = [pc EXCEPT ![p] = IF rel # {} THEN "release"
                                           ELSE AfterRelease(own)]
                /\ shouldOwn' = [shouldOwn EXCEPT ![p] = own]
                /\ todo' = [todo EXCEPT ![p] = IF rel # {} THEN rel ELSE own]
                /\ UNCHANGED confirmed
        /\ lost' = Rec([lost EXCEPT ![p] = {}], lost)
        /\ clean' = OthersDisturbed(p, IF clean[p] = 2 THEN 2 ELSE 1, FALSE)
        /\ cur' = Rec([cur EXCEPT ![p] = IF \A q \in Live : fullTicks[q] >= 1
                                         THEN 2 ELSE 1], cur)
        /\ UNCHANGED <<storeVars, node_name, sup, lease, queried, holders,
                       fullTicks, r2, hist, calc, ka, sv, auxVars>>

\* Step 2, one partition of shouldRelease: Txn(compare value == node_id,
\* success: DeleteRange).
ReleaseTxn(p) ==
    LET n == Min(todo[p])
        rest == todo[p] \ {n}
        ok == ReleaseCompare(locks[n], node_name[p])
    IN  /\ sup[p] = "running"
        /\ pc[p] = "release"
        /\ locks' = IF ok THEN [locks EXCEPT ![n] = NoLock] ELSE locks
        /\ holders' = Rec(IF ok THEN [holders EXCEPT ![n] = {}] ELSE holders, holders)
        /\ todo' = [todo EXCEPT ![p] = IF rest # {} THEN rest ELSE shouldOwn[p]]
        /\ pc' = [pc EXCEPT ![p] = IF rest # {} THEN "release"
                                   ELSE AfterRelease(shouldOwn[p])]
        /\ clean' = OthersDisturbed(p, clean[p], locks' # locks)
        /\ UNCHANGED <<leases, nextLease, leaseCap, nodeKeys, node_name, sup, lease,
                       shouldOwn, confirmed, queried, lost, fullTicks, cur, r2,
                       hist, calc, ka, sv, auxVars>>

\* Step 3, one partition of shouldOwn: Txn(compare version == 0,
\* success: Put(/sync_locks/<n>, node_id, lease)) (main.rs:151-161).
ClaimTxn(p) ==
    LET n == Min(todo[p])
        rest == todo[p] \ {n}
        ok == ClaimCompare(locks[n])
    IN  /\ sup[p] = "running"
        /\ pc[p] = "claim"
        /\ locks' = IF ok
                    THEN [locks EXCEPT ![n] = [value |-> node_name[p],
                                               lease |-> lease[p],
                                               version |-> locks[n].version + 1]]
                    ELSE locks
        /\ holders' = Rec(IF ok THEN [holders EXCEPT ![n] = @ \cup {p}] ELSE holders,
                          holders)
        /\ lost' = Rec(IF ~ok /\ locks[n].value # node_name[p]
                       THEN [lost EXCEPT ![p] = @ \cup {n}] ELSE lost, lost)
        /\ todo' = [todo EXCEPT ![p] = rest]
        /\ pc' = [pc EXCEPT ![p] = IF rest # {} THEN "claim" ELSE "read"]
        /\ clean' = OthersDisturbed(p, clean[p], locks' # locks)
        /\ UNCHANGED <<leases, nextLease, leaseCap, nodeKeys, node_name, sup, lease,
                       shouldOwn, confirmed, queried, fullTicks, cur, r2, hist,
                       calc, ka, sv, auxVars>>

\* Step 4, the post-reconciliation read: the locks under /sync_locks/ whose
\* value is this node_id.
ReadLocks(p) ==
    /\ sup[p] = "running"
    /\ pc[p] = "read"
    /\ confirmed' = [confirmed EXCEPT ![p] =
                        {n \in Partitions : locks[n].value = node_name[p]}]
    /\ pc' = [pc EXCEPT ![p] = "query"]
    /\ clean' = OthersDisturbed(p, IF clean[p] >= 1 THEN 2 ELSE 0, FALSE)
    /\ UNCHANGED <<storeVars, node_name, sup, lease, shouldOwn, todo, queried,
                   holders, lost, fullTicks, cur, r2, hist, calc, ka, sv, auxVars>>

\* A pipeline that queries the shard it computed, not the locks it read.
query_input_ShouldOwn(p) == shouldOwn[p]

\* The partitions handed to get_sync_records_for_partitions (lib.rs:544-555).
query_input(p) == confirmed[p]

\* get_sync_records_for_partitions: one query task per partition of its input
\* (aws.rs:176-195). The tick's work ends here.
QueryPartitions(p) ==
    /\ sup[p] = "running"
    /\ pc[p] = "query"
    /\ queried' = [queried EXCEPT ![p] = query_input(p)]
    /\ pc' = [pc EXCEPT ![p] = "sleep"]
    /\ fullTicks' = Rec([fullTicks EXCEPT ![p] =
                            IF cur[p] >= 1 /\ @ < 2 THEN @ + 1 ELSE @], fullTicks)
    /\ r2' = Rec([r2 EXCEPT ![p] = @ \/ cur[p] = 2], r2)
    /\ cur' = Rec([cur EXCEPT ![p] = 0], cur)
    /\ UNCHANGED <<storeVars, node_name, sup, lease, shouldOwn, todo, confirmed,
                   holders, lost, clean, hist, calc, ka, sv, auxVars>>

\* tokio::time::sleep(20 s) ends (lib.rs:608): the next tick starts.
Wake(p) ==
    /\ sup[p] = "running"
    /\ pc[p] = "sleep"
    /\ pc' = [pc EXCEPT ![p] = "tick"]
    /\ shouldOwn' = [shouldOwn EXCEPT ![p] = {}]
    /\ queried' = [queried EXCEPT ![p] = {}]
    /\ lost' = Rec([lost EXCEPT ![p] = {}], lost)
    /\ UNCHANGED <<storeVars, node_name, sup, lease, todo, confirmed, holders,
                   clean, fullTicks, cur, r2, hist, calc, ka, sv, auxVars>>

PipelineStep(p) ==
    \/ ReadMembers(p)
    \/ ReleaseTxn(p)
    \/ ClaimTxn(p)
    \/ ReadLocks(p)
    \/ QueryPartitions(p)
    \/ Wake(p)

\* ------------------------------------------------------------ specifications
InitCluster ==
    /\ leases = [l \in LeaseIds |-> 0]
    /\ nextLease = 1
    /\ nodeKeys = [nm \in Names |-> 0]
    /\ locks = [n \in Partitions |-> NoLock]
    /\ sup = [p \in Procs |-> "off"]
    /\ lease = [p \in Procs |-> 0]
    /\ pc = [p \in Procs |-> "none"]
    /\ shouldOwn = [p \in Procs |-> {}]
    /\ todo = [p \in Procs |-> {}]
    /\ confirmed = [p \in Procs |-> {}]
    /\ queried = [p \in Procs |-> {}]
    /\ holders = [n \in Partitions |-> {}]
    /\ lost = [p \in Procs |-> {}]
    /\ clean = [p \in Procs |-> 0]
    /\ fullTicks = [p \in Procs |-> 0]
    /\ cur = [p \in Procs |-> 0]
    /\ r2 = [p \in Procs |-> FALSE]

\* Every worker has its own hostname.
Init ==
    /\ InitCluster
    /\ node_name = [p \in Procs |-> AllNames[p]]
    /\ leaseCap = MaxLeases
    /\ hist = TRUE
    /\ calc = [op |-> "none"]
    /\ ka = KaOff
    /\ sv = SvOff
    /\ AuxOff

\* The same fleet with fewer boots, its history not recorded.
InitPlain ==
    /\ InitCluster
    /\ node_name = [p \in Procs |-> AllNames[p]]
    /\ leaseCap = MaxFairLeases
    /\ hist = FALSE
    /\ calc = [op |-> "none"]
    /\ ka = KaOff
    /\ sv = SvOff
    /\ AuxOff

\* Hostname collisions allowed: two processes may run under one node_id.
InitRace ==
    /\ InitCluster
    /\ node_name \in {f \in [Procs -> Names] : f[1] = "a"}
    /\ leaseCap = MaxFairLeases
    /\ hist = TRUE
    /\ calc = [op |-> "none"]
    /\ ka = KaOff
    /\ sv = SvOff
    /\ AuxOff

Next ==
    \/ \E p \in Procs : AcquireLease(p)
    \/ \E p \in Procs : record_node_membership(p)
    \/ \E p \in Procs : Kill(p)
    \/ \E l \in LeaseIds : LeaseExpire(l)
    \/ \E p \in Procs : ReadMembers(p)
    \/ \E p \in Procs : ReleaseTxn(p)
    \/ \E p \in Procs : ClaimTxn(p)
    \/ \E p \in Procs : ReadLocks(p)
    \/ \E p \in Procs : QueryPartitions(p)
    \/ \E p \in Procs : Wake(p)

Spec == Init /\ [][Next]_vars
SpecRace == InitRace /\ [][Next]_vars

\* The pipeline task keeps running while its process lives (its sleeps end,
\* the store answers), a granted lease is registered, and a lease nobody
\* refreshes runs out after its TTL. Crashes and restarts are not forced.
FairSpec ==
    /\ InitPlain
    /\ [][Next]_vars
    /\ \A p \in Procs : WF_vars(record_node_membership(p) \/ PipelineStep(p))
    /\ WF_vars(\E l \in LeaseIds : LeaseExpire(l))

\* ----------------------------------------------------------------- vocabulary
Members == {nm \in Names : nodeKeys[nm] # 0}
OwnedBy(nm) == {n \in Partitions : locks[n].value = nm}
ModShard(i, w) == {n \in Partitions : n % w = i}

\* C6: when "a" and "b" are the fleet (a started, b joined) and stay it, the
\* locks eventually settle, for good, on the split a = {0,2,..}, b = {1,3,..}.
C6_TwoNodeSplit ==
    <>[](Members = {"a", "b"} /\ Live = {1, 2})
        => <>[](OwnedBy("a") = ModShard(0, 2) /\ OwnedBy("b") = ModShard(1, 2))

\* C7: once "a" is gone (its lease ran out, its keys were removed) and "b" is
\* the fleet, "b" comes to own every partition, unless the fleet changes again.
C7_FailureRebalance ==
    (Members = {"b"} /\ Live = {2})
        ~> (OwnedBy("b") = Partitions \/ Members # {"b"} \/ Live # {2})

\* C1: at most one owner. In every reachable state each partition lock has at
\* most one process whose claim on it succeeded and still stands, and the lock
\* carries that process's node_id.
C1_AtMostOneOwner ==
    \A n \in Partitions :
        /\ Cardinality(holders[n]) <= 1
        /\ \A p \in holders[n] : locks[n].value = node_name[p]

\* Two nodes tried to claim the same partition in their current runs; one of
\* them holds it.
C1_Witness ==
    \E n \in Partitions :
        /\ n \in shouldOwn[1] /\ n \in shouldOwn[2]
        /\ pc[1] \in {"read", "query"} /\ pc[2] \in {"read", "query"}
        /\ holders[n] = {2}

C6_Witness ==
    /\ Members = {"a", "b"} /\ Live = {1, 2}
    /\ OwnedBy("a") = ModShard(0, 2) /\ OwnedBy("b") = ModShard(1, 2)
    /\ queried[1] = ModShard(0, 2) /\ queried[2] = ModShard(1, 2)

\* "a" is gone, its lease expired and its keys removed; "b" holds every lock.
C7_Witness ==
    /\ sup[1] = "dead" /\ nodeKeys["a"] = 0
    /\ nextLease = 3 /\ leases[1] = 0
    /\ Live = {2} /\ node_name[2] = "b"
    /\ OwnedBy("b") = Partitions
    /\ confirmed[2] = Partitions

\* ---- C2
\* ClaimTxn(p) has just run on partition Min(todo[p]).
ClaimStep(p) ==
    /\ pc[p] = "claim"
    /\ pc'[p] \in {"claim", "read"}
    /\ todo'[p] = todo[p] \ {Min(todo[p])}
\* ReadLocks(p) has just run.
ReadStep(p) == pc[p] = "read" /\ pc'[p] = "query"
UniqueName(p) == \A q \in Procs : q # p => node_name[q] # node_name[p]
\* After any claim transaction the lock has exactly one winner, and a claim on a
\* lock that is already won displaces nobody.
OneWinner ==
    \A p \in Procs : ClaimStep(p) =>
        /\ Cardinality(holders'[Min(todo[p])]) = 1
        /\ holders[Min(todo[p])] # {} => holders'[Min(todo[p])] = holders[Min(todo[p])]

\* C2 as stated: exactly one process wins a contended lock and only the winner
\* reads the partition as confirmed, also when processes share a node_id.
C2_OnlyWinnerConfirms ==
    [][ /\ OneWinner
        /\ \A p \in Procs : ReadStep(p) =>
               \A n \in confirmed'[p] : holders[n] = {p} ]_vars

\* C2, amended: exactly one process wins a contended lock; a process reads the
\* partition as confirmed only if the winner carries its node_id, and when no
\* other process shares its node_id only if it is the winner itself.
C2_ClaimRace ==
    [][ /\ OneWinner
        /\ \A p \in Procs : ReadStep(p) =>
               \A n \in confirmed'[p] :
                   /\ holders[n] # {}
                   /\ \A q \in holders[n] :
                         /\ node_name[q] = node_name[p]
                         /\ UniqueName(p) => q = p ]_vars

\* Two processes under one node_id raced for their shard: each won some lock,
\* and the loser of a lock reads it as confirmed too.
C2_Witness ==
    /\ node_name[1] = node_name[2]
    /\ pc[1] = "query" /\ pc[2] = "query"
    /\ \E n, m \in Partitions :
          /\ holders[n] = {1} /\ holders[m] = {2}
          /\ {n, m} \subseteq shouldOwn[1] \cap shouldOwn[2]
          /\ {n, m} \subseteq confirmed[1] \cap confirmed[2]

\* ---- C4
LiveNames == {node_name[p] : p \in Live}
Coverage == UNION {confirmed[p] : p \in Live} = Partitions

\* C4 as stated: once every live node has finished two full ticks since the
\* fleet last changed, the confirmed sets of the live nodes cover [0,P).
C4_TwoTicksCover ==
    (Live # {} /\ Members = LiveNames /\ \A p \in Live : fullTicks[p] = 2)
        => Coverage

\* C4, amended: the confirmed sets cover [0,P) once every live node has
\* finished a full tick that began after every live node had finished a full
\* tick since the fleet last changed.
C4_CoverageAfterTwoRounds ==
    (Live # {} /\ Members = LiveNames /\ \A p \in Live : r2[p]) => Coverage

C4_Witness ==
    /\ Live = {1, 2} /\ Members = {"a", "b"}
    /\ r2[1] /\ r2[2]
    /\ confirmed[1] = ModShard(0, 2) /\ confirmed[2] = ModShard(1, 2)

\* ---- C5
\* C5: single-node boot. While "a" is the only node that ever started, after
\* its first completed reconciliation /nodes/a exists under its lease, every
\* lock exists with value "a" under that lease, and its confirmed set is [0,P).
C5_SingleNodeBoot ==
    (/\ nextLease = 2
     /\ sup[1] = "running"
     /\ (pc[1] \in {"query", "sleep"} \/ fullTicks[1] >= 1))
        => /\ lease[1] # 0
           /\ nodeKeys["a"] = lease[1]
           /\ \A n \in Partitions :
                 locks[n].value = "a" /\ locks[n].lease = lease[1]
           /\ confirmed[1] = Partitions

C5_Witness ==
    /\ nextLease = 2 /\ sup[1] = "running" /\ pc[1] = "sleep"
    /\ queried[1] = Partitions
    /\ \A n \in Partitions : locks[n].value = "a"

\* ---- C8
\* C8: idempotent reconciliation. Once a node has finished a reconciliation
\* that nothing disturbed, its further reconciliations leave every lock key,
\* value, lease binding and version as they are, for as long as nothing else
\* acts on the store.
C8_IdempotentReconciliation ==
    [][ \A p \in Procs : (clean[p] = 2 /\ clean'[p] = 2) => locks' = locks ]_vars

\* The second reconciliation in a row has run its releases and its claims;
\* the claims failed on locks another node still holds.
C8_Witness ==
    \E p \in Procs :
        /\ clean[p] = 2 /\ pc[p] = "read"
        /\ shouldOwn[p] # Partitions
        /\ lost[p] # {}

\* ---- C9
\* C9: the partitions queried in a tick are exactly the confirmed set of the
\* post-reconciliation read; a partition whose claim was lost to another node
\* in that tick is not queried.
C9_QueryConfirmedOnly ==
    \A p \in Procs : pc[p] = "sleep" =>
        /\ queried[p] = confirmed[p]
        /\ queried[p] \cap lost[p] = {}

C9_Witness ==
    \E p \in Procs :
        /\ pc[p] = "sleep"
        /\ lost[p] # {} /\ queried[p] # {}
        /\ lost[p] \subseteq shouldOwn[p]

\* ---- The shard computation on its own
clusterVars == <<storeVars, procVars, histVars>>

ShardInputs ==
    {[op |-> "shard", i |-> x[1], w |-> x[2], total |-> x[3],
      out |-> <<>>, done |-> FALSE] :
        x \in {y \in (0..(MaxShardWorkers - 1)) \X (1..MaxShardWorkers)
                        \X (0..MaxShardPartitions) : y[1] < y[2]}}

InitShard ==
    /\ InitCluster
    /\ node_name = [p \in Procs |-> AllNames[p]]
    /\ leaseCap = MaxLeases
    /\ hist = FALSE
    /\ calc \in ShardInputs
    /\ ka = KaOff
    /\ sv = SvOff
    /\ AuxOff

\* let sync_records_to_claim = (current_worker_index..total).step_by(workers_count)
ApplyShard ==
    /\ calc.op = "shard"
    /\ ~calc.done
    /\ calc' = [calc EXCEPT
                   !.out = sync_records_to_claim(calc.i, calc.w, calc.total),
                   !.done = TRUE]
    /\ UNCHANGED <<clusterVars, ka, sv, auxVars>>

SpecShard == InitShard /\ [][ApplyShard]_vars

\* C3: deterministic sharding. For index i among W workers and P partitions
\* the node tries to claim exactly { p in [0,P) : p mod W = i }, each once;
\* the result is a function of (i, W, P) alone.
C3_DeterministicSharding ==
    (calc.op = "shard" /\ calc.done) =>
        /\ SeqRange(calc.out) = {n \in 0..(calc.total - 1) : n % calc.w = calc.i}
        /\ Len(calc.out) = Cardinality(SeqRange(calc.out))

C3_Witness ==
    /\ calc.op = "shard" /\ calc.done
    /\ calc.w = 3 /\ calc.i = 1 /\ calc.total = 8
    /\ calc.out = <<1, 4, 7>>

\* ---- The range end of a prefix
\* A string is the sequence of its chars (code points); its bytes are UTF-8.
Utf8(c) ==
    IF c < 128 THEN <<c>>
    ELSE IF c < 2048 THEN <<192 + (c \div 64), 128 + (c % 64)>>
    ELSE <<224 + (c \div 4096), 128 + ((c \div 64) % 64), 128 + (c % 64)>>

RECURSIVE Utf8String(_)
Utf8String(s) == IF s = <<>> THEN <<>> ELSE Utf8(Head(s)) \o Utf8String(Tail(s))

\* "/nodes/" as chars.
ReplicaPrefixChars == <<47, 110, 111, 100, 101, 115, 47>>

\* '/', 's', '~', DEL, U+00BF, U+00E9, U+00FF, U+20AC
Chars == {47, 115, 126, 127, 191, 233, 255, 8364}

\* pop() the last char, `as u8 + 1`, push the char of that byte. The addition
\* overflows at 255: a panic where overflow checks are compiled in, 0 otherwise.
calculate_prefix_range_end(prefix, overflow_checks) ==
    IF prefix = <<>> THEN [panicked |-> TRUE, value |-> <<>>]
    ELSE LET calculated_prefix == SubSeq(prefix, 1, Len(prefix) - 1)
             prefix_last_char == prefix[Len(prefix)]
             incremented_char == (prefix_last_char % 256) + 1
         IN  IF incremented_char > 255
             THEN IF overflow_checks
                  THEN [panicked |-> TRUE, value |-> <<>>]
                  ELSE [panicked |-> FALSE, value |-> Append(calculated_prefix, 0)]
             ELSE [panicked |-> FALSE,
                   value |-> Append(calculated_prefix, incremented_char)]

RangeInputs ==
    {[op |-> "range_end", prefix |-> s, overflow_checks |-> b,
      out |-> <<>>, panicked |-> FALSE, done |-> FALSE] :
        s \in (UNION {[1..k -> Chars] : k \in 1..MaxPrefixLen})
                  \cup {ReplicaPrefixChars},
        b \in BOOLEAN}

InitRange ==
    /\ InitCluster
    /\ node_name = [p \in Procs |-> AllNames[p]]
    /\ leaseCap = MaxLeases
    /\ hist = FALSE
    /\ calc \in RangeInputs
    /\ ka = KaOff
    /\ sv = SvOff
    /\ AuxOff

ApplyRangeEnd ==
    /\ calc.op = "range_end"
    /\ ~calc.done
    /\ LET r == calculate_prefix_range_end(calc.prefix, calc.overflow_checks)
       IN  calc' = [calc EXCEPT !.out = r.value, !.panicked = r.panicked,
                                !.done = TRUE]
    /\ UNCHANGED <<clusterVars, ka, sv, auxVars>>

SpecRange == InitRange /\ [][ApplyRangeEnd]_vars

\* Byte strings in etcd's key order.
RECURSIVE BytesLess(_, _)
BytesLess(x, y) ==
    IF y = <<>> THEN FALSE
    ELSE IF x = <<>> THEN TRUE
    ELSE IF Head(x) # Head(y) THEN Head(x) < Head(y)
    ELSE BytesLess(Tail(x), Tail(y))

LastByteIncremented(bytes) ==
    [bytes EXCEPT ![Len(bytes)] = bytes[Len(bytes)] + 1]

KeySuffixes == {<<>>, <<0>>, <<47>>, <<255>>, <<255, 255>>}

\* C10: range-end derivation. For every non-empty prefix the computed range
\* end is the prefix with its last byte incremented by one, and it is strictly
\* greater than every key that starts with the prefix.
C10_RangeEndDerivation ==
    (calc.op = "range_end" /\ calc.done) =>
        /\ ~calc.panicked
        /\ Utf8String(calc.out) = LastByteIncremented(Utf8String(calc.prefix))
        /\ \A sfx \in KeySuffixes :
               BytesLess(Utf8String(calc.prefix) \o sfx, Utf8String(calc.out))

\* ---- The lease keep-alive task (etcd.rs:183-243), time in seconds
\* LeaseGrantRequest { id: 0, ttl: 30 }
lease_ttl == 30
ttl_desired_preemption == 10
MaxTtl == 31
MaxLatency == 3
MaxRequests == 3

Max(a, b) == IF a >= b THEN a ELSE b

\* A wait that is always half the TTL.
time_to_wait_before_renewal_Half(ttl_in_seconds) == ttl_in_seconds \div 2

\* A loop that sleeps for the whole TTL the response reported.
time_to_wait_before_renewal_WholeTtl(ttl_in_seconds) == ttl_in_seconds

\* etcd.rs:211-215
time_to_wait_before_renewal(ttl_in_seconds) ==
    IF ttl_in_seconds <= ttl_desired_preemption
    THEN ttl_in_seconds \div 2
    ELSE ttl_in_seconds - ttl_desired_preemption

\* A deadline counted from the arrival of the response.
sleep_deadline_FromNow(instant_before_request, now, wait) == now + wait

\* sleep_until(instant_before_request + Duration::from_secs(wait))
sleep_deadline(instant_before_request, now, wait) == instant_before_request + wait

\* A refresh that takes a remaining TTL of 0 for a live lease.
refresh_lease_once_AcceptZero(response) ==
    IF response.kind = "status" THEN "Status"
    ELSE IF response.kind = "end" THEN "RefreshLease"
    ELSE IF response.ttl >= 0 THEN "ok" ELSE "LeaseExpired"

\* What refresh_lease_once makes of the next item of the response stream
\* (etcd.rs:107-119): Err(status)?, None, Some(response).
refresh_lease_once(response) ==
    IF response.kind = "status" THEN "Status"
    ELSE IF response.kind = "end" THEN "RefreshLease"
    ELSE IF response.ttl > 0 THEN "ok" ELSE "LeaseExpired"

Responses ==
    {[kind |-> "msg", ttl |-> t] : t \in (-1)..MaxTtl}
        \cup {[kind |-> "end", ttl |-> 0], [kind |-> "status", ttl |-> 0]}

KaStart ==
    [phase |-> "init", now |-> 0, instant_before_request |-> 0, sent |-> <<>>,
     ttl |-> 0, wait |-> 0, response |-> [kind |-> "none", ttl |-> 0],
     err |-> "none", healthy |-> TRUE]

InitKeepAlive ==
    /\ InitCluster
    /\ node_name = [p \in Procs |-> AllNames[p]]
    /\ leaseCap = MaxLeases
    /\ hist = FALSE
    /\ calc = [op |-> "none"]
    /\ ka = KaStart
    /\ sv = SvOff
    /\ AuxOff

\* initialise_lease_keep_alive (etcd.rs:151-178): queue a first request on
\* the new channel, then open the bidirectional stream.
OpenStream ==
    /\ ka.phase = "init"
    /\ \E ok \in BOOLEAN :
          ka' = [ka EXCEPT !.sent = Append(@, ka.now),
                           !.phase = IF ok THEN "loop" ELSE "ended",
                           !.err = IF ok THEN "none" ELSE "Status"]
    /\ UNCHANGED <<clusterVars, calc, sv, auxVars>>

\* Top of the loop: take instant_before_request, send the request
\* (etcd.rs:202, 101, 123-131). A closed channel ends the task.
SendRequest ==
    /\ ka.phase = "loop"
    /\ Len(ka.sent) < MaxRequests
    /\ \E closed \in BOOLEAN :
          ka' = IF closed
                THEN [ka EXCEPT !.instant_before_request = ka.now,
                                !.phase = "ended", !.err = "ChannelClosed",
                                !.healthy = FALSE]
                ELSE [ka EXCEPT !.instant_before_request = ka.now,
                                !.sent = Append(@, ka.now),
                                !.phase = "await"]
    /\ UNCHANGED <<clusterVars, calc, sv, auxVars>>

\* response_receiver.message().await after d seconds (etcd.rs:107-119), then
\* the wait is computed (etcd.rs:209-215).
ReceiveResponse ==
    /\ ka.phase = "await"
    /\ \E response \in Responses, d \in 0..MaxLatency :
          LET result == refresh_lease_once(response)
              wait == time_to_wait_before_renewal(response.ttl)
          IN  ka' = IF result = "ok"
                    THEN [ka EXCEPT !.now = @ + d, !.response = response,
                                    !.ttl = response.ttl, !.wait = wait,
                                    !.phase = "sleep",
                                    !.healthy = @ /\ response.ttl = lease_ttl
                                                  /\ d <= wait]
                    ELSE [ka EXCEPT !.now = @ + d, !.response = response,
                                    !.phase = "ended", !.err = result,
                                    !.healthy = FALSE]
    /\ UNCHANGED <<clusterVars, calc, sv, auxVars>>

\* tokio::time::sleep_until(..) (etcd.rs:228-237): returns at once when the
\* deadline has passed.
SleepUntil ==
    /\ ka.phase = "sleep"
    /\ ka' = [ka EXCEPT
                 !.now = Max(@, sleep_deadline(ka.instant_before_request,
                                               ka.now, ka.wait)),
                 !.phase = "loop"]
    /\ UNCHANGED <<clusterVars, calc, sv, auxVars>>

NextKeepAlive == OpenStream \/ SendRequest \/ ReceiveResponse \/ SleepUntil

SpecKeepAlive == InitKeepAlive /\ [][NextKeepAlive]_vars

\* C11: keep-alive sleep formula. After every response with remaining TTL
\* ttl > 0 the loop sleeps until max(ttl/2, ttl - 10) seconds after the instant
\* taken before the request was sent.
C11_SleepFormula ==
    ka.phase = "sleep" =>
        sleep_deadline(ka.instant_before_request, ka.now, ka.wait)
            = ka.instant_before_request
                + Max(ka.ttl \div 2, ka.ttl - ttl_desired_preemption)

\* The responses so far all reported the granted TTL and arrived before the
\* deadline they set.
Healthy == ka.phase # "off" /\ ka.healthy
Gap(i) == ka.sent[i + 1] - ka.sent[i]
CadenceLow == lease_ttl \div 2
CadenceHigh == lease_ttl - ttl_desired_preemption

C13_LeaseLossDetection ==
    /\ [](ka.phase \notin {"off", "init"} =>
            /\ (ka.response.kind = "msg" /\ ka.response.ttl <= 0)
                   => (ka.phase = "ended" /\ ka.err = "LeaseExpired")
            /\ ka.response.kind = "end"
                   => (ka.phase = "ended" /\ ka.err = "RefreshLease")
            /\ ka.response.kind = "status"
                   => (ka.phase = "ended" /\ ka.err = "Status")
            /\ ka.err # "none" => ka.phase = "ended")
    /\ [][(ka.phase \notin {"off", "init"} /\ ka.err # "none")
              => ka'.sent = ka.sent]_vars

C13_Witness ==
    /\ ka.phase = "ended"
    /\ ka.err = "LeaseExpired"
    /\ ka.response.ttl = 0
    /\ Len(ka.sent) = 3

\* ---- One node's supervisor and its tasks (lib.rs:437-631)
\* Leases one node is granted in a behaviour (supervisor iterations that get
\* as far as a lease).
MaxSupLeases == 2
SupLeases == 0..MaxSupLeases

SvStart ==
    [phase |-> "init_grant",   \* position of manage_cluster_node_membership_and_start_work
     lease |-> 0,              \* lease.id of this iteration (Default::default() = 0)
     result |-> "none",        \* result of initialise_lease_and_node_membership
     granted |-> 0,            \* leases the store has granted to this node
     signal |-> FALSE,         \* the watch channel has changed
     token |-> FALSE,          \* token.cancel() has run
     runtime |-> "up",         \* the tokio runtime; down: every task is dropped
     keep |-> [l \in SupLeases |-> "none"],  \* lease_keep_alive tasks
     pl |-> [l \in SupLeases |-> "none"],    \* start_sync_pipeline tasks
     alive |-> [l \in SupLeases |-> FALSE],  \* store: lease l is live
     member |-> 0,             \* store: lease of /nodes/<node_id>, 0 = absent
     lockLease |-> 0,          \* store: lease of this node's lock keys, 0 = none
     \* history
     put |-> [l \in SupLeases |-> FALSE],     \* membership Put with l succeeded
     claimed |-> [l \in SupLeases |-> FALSE], \* pipeline l ran the Balancer
     queried |-> [l \in SupLeases |-> FALSE], \* pipeline l queried partitions
     handled |-> [l \in SupLeases |-> FALSE], \* supervisor saw keep-alive l end
     tickAfter |-> [l \in SupLeases |-> FALSE], \* pipeline l began a tick after that
     lateStart |-> FALSE,      \* a task began a tick or refresh after cancel
     lateRefresh |-> FALSE,    \* a keep-alive request left after the loop's break
     qfail |-> [l \in SupLeases |-> FALSE],   \* a partition query of l failed
     jfail |-> [l \in SupLeases |-> FALSE],   \* a sync job of l failed
     exitedOn |-> "none"]      \* what made the supervisor return

InitSup ==
    /\ InitCluster
    /\ node_name = [p \in Procs |-> AllNames[p]]
    /\ leaseCap = MaxLeases
    /\ hist = FALSE
    /\ calc = [op |-> "none"]
    /\ ka = KaOff
    /\ sv = SvStart
    /\ AuxOff

SvUp == sv.phase # "off" /\ sv.runtime = "up"
SvRest == <<clusterVars, calc, ka, auxVars>>

\* ---- the environment
\* SIGTERM / SIGINT: tx.send(()) (main.rs:205).
Signal ==
    /\ SvUp /\ ~sv.signal
    /\ sv' = [sv EXCEPT !.signal = TRUE]
    /\ UNCHANGED SvRest

\* The store drops a lease nobody refreshes, with the keys bound to it.
LeaseTimeout(l) ==
    /\ sv.phase # "off"
    /\ sv.alive[l]
    /\ sv.keep[l] # "running"
    /\ sv' = [sv EXCEPT !.alive[l] = FALSE,
                        !.member = IF @ = l THEN 0 ELSE @,
                        !.lockLease = IF @ = l THEN 0 ELSE @]
    /\ UNCHANGED SvRest

\* ---- the task spawned at lib.rs:445-452
Cancel ==
    /\ SvUp /\ sv.signal /\ ~sv.token
    /\ sv' = [sv EXCEPT !.token = TRUE]
    /\ UNCHANGED SvRest

\* ---- the supervisor loop
\* initialise_lease_and_node_membership, first half: LeaseGrant. On any error
\* `lease` keeps its default.
SvGrant ==
    /\ SvUp /\ sv.phase = "init_grant"
    /\ \/ /\ sv.granted < MaxSupLeases
          /\ sv' = [sv EXCEPT !.granted = @ + 1, !.lease = sv.granted + 1,
                              !.alive[sv.granted + 1] = TRUE,
                              !.phase = "init_put"]
       \/ sv' = [sv EXCEPT !.lease = 0, !.result = "err", !.phase = "match"]
    /\ UNCHANGED SvRest

\* initialise_lease_and_node_membership, second half: Put /nodes/<node_id>
\* with the lease.
SvPut ==
    /\ SvUp /\ sv.phase = "init_put"
    /\ \/ /\ sv.alive[sv.lease]
          /\ sv' = [sv EXCEPT !.member = sv.lease, !.put[sv.lease] = TRUE,
                              !.result = "ok", !.phase = "match"]
       \/ sv' = [sv EXCEPT !.lease = 0, !.result = "err", !.phase = "match"]
    /\ UNCHANGED SvRest

\* A supervisor that spawns its tasks whatever the initialisation returned.
spawn_on_Always(result) == TRUE

\* match result { Ok(_) => spawn ..., Err(e) => log } (lib.rs:463-464, 504)
spawn_on(result) == result = "ok"

\* lib.rs:463-474, 504-514
SvMatch ==
    /\ SvUp /\ sv.phase = "match"
    /\ sv' = IF spawn_on(sv.result)
             THEN [sv EXCEPT !.keep[sv.lease] = "running",
                             !.pl[sv.lease] = "start",
                             !.phase = "select"]
             ELSE [sv EXCEPT !.phase = "backoff"]
    /\ UNCHANGED SvRest

\* select!, first branch (lib.rs:477-484): the keep-alive task has ended. The
\* pipeline's JoinHandle is dropped, which detaches the task.
SvSelectKeepAlive ==
    /\ SvUp /\ sv.phase = "select"
    /\ sv.keep[sv.lease] = "ended"
    /\ sv' = [sv EXCEPT !.handled[sv.lease] = TRUE, !.phase = "backoff"]
    /\ UNCHANGED SvRest

\* select!, second branch (lib.rs:485-497): the pipeline task has ended;
\* expect() panics on a JoinError, otherwise break.
SvSelectPipeline ==
    /\ SvUp /\ sv.phase = "select"
    /\ sv.pl[sv.lease] \in {"err", "panicked"}
    /\ sv' = [sv EXCEPT
                 !.phase = IF sv.pl[sv.lease] = "panicked" THEN "panicked"
                           ELSE "exited",
                 !.exitedOn = "pipeline"]
    /\ UNCHANGED SvRest

\* select!, third branch (lib.rs:498-501): break.
SvSelectToken ==
    /\ SvUp /\ sv.phase = "select"
    /\ sv.token
    /\ sv' = [sv EXCEPT !.phase = "exited", !.exitedOn = "token"]
    /\ UNCHANGED SvRest

\* tokio::time::sleep(5 s) (lib.rs:514), then the next iteration.
SvBackoff ==
    /\ SvUp /\ sv.phase = "backoff"
    /\ sv' = [sv EXCEPT !.phase = "init_grant", !.result = "none"]
    /\ UNCHANGED SvRest

Dropped(t) == IF t \in {"none", "ended", "err", "panicked"} THEN t ELSE "dropped"

\* run() returns once the supervisor's JoinHandle resolves (lib.rs:121-127);
\* the runtime goes down and drops every task still alive.
ProcessExit ==
    /\ SvUp /\ sv.phase \in {"exited", "panicked"}
    /\ sv' = [sv EXCEPT !.runtime = "down",
                        !.keep = [l \in SupLeases |-> Dropped(sv.keep[l])],
                        !.pl = [l \in SupLeases |-> Dropped(sv.pl[l])]]
    /\ UNCHANGED SvRest

SupervisorStep ==
    \/ SvGrant \/ SvPut \/ SvMatch
    \/ SvSelectKeepAlive \/ SvSelectPipeline \/ SvSelectToken
    \/ SvBackoff \/ ProcessExit

\* ---- the keep-alive task of lease l (etcd.rs:183-243)
KeepAliveRefresh(l) ==
    /\ SvUp /\ sv.keep[l] = "running"
    /\ sv.alive[l]
    /\ sv' = [sv EXCEPT !.lateStart = @ \/ sv.token,
                        !.lateRefresh = @ \/ sv.phase = "exited"]
    /\ UNCHANGED SvRest

\* The task returns Err: the lease is lost or the stream broke.
KeepAliveEnds(l) ==
    /\ SvUp /\ sv.keep[l] = "running"
    /\ sv' = [sv EXCEPT !.keep[l] = "ended"]
    /\ UNCHANGED SvRest

\* ---- the pipeline task of lease l (lib.rs:518-631)
\* A pipeline whose tick, once done, makes the function return Ok.
loop_after_Return(result) == IF result = "ok" THEN "returned" ELSE "err"

\* `.await?` on the tick's result inside `loop` (lib.rs:539, 615-623): Ok
\* goes round the loop, Err leaves the function.
loop_after(result) == IF result = "ok" THEN "locks" ELSE "err"

\* get_users(..).await? (lib.rs:536)
PlGetUsers(l) ==
    /\ SvUp /\ sv.pl[l] = "start"
    /\ \E ok \in BOOLEAN :
          sv' = [sv EXCEPT !.pl[l] = IF ok THEN "locks" ELSE "err"]
    /\ UNCHANGED SvRest

\* A tick begins: establish_correct_sync_partition_locks (lib.rs:544-549).
\* Claims are Puts under lease l; they fail when the lease is gone.
PlEstablishLocks(l) ==
    /\ SvUp /\ sv.pl[l] = "locks"
    /\ sv' = [sv EXCEPT !.pl[l] = "query",
                        !.claimed[l] = TRUE,
                        !.lockLease = IF sv.alive[l] /\ @ = 0 THEN l ELSE @,
                        !.tickAfter[l] = @ \/ sv.handled[l],
                        !.lateStart = @ \/ sv.token]
    /\ UNCHANGED SvRest

\* get_sync_records_for_partitions(..).await? (lib.rs:551-555): an error
\* after the retries leaves the async block and, at lib.rs:623, the function.
PlQuery(l) ==
    /\ SvUp /\ sv.pl[l] = "query"
    /\ \E ok \in BOOLEAN :
          sv' = [sv EXCEPT !.pl[l] = IF ok THEN "jobs" ELSE loop_after("err"),
                           !.queried[l] = TRUE,
                           !.qfail[l] = @ \/ ~ok,
                           !.lateStart = @ \/ sv.token]
    /\ UNCHANGED SvRest

\* The jobs of the tick, one after the other (lib.rs:563-606): a failed user
\* lookup or Notion call is unwrap()ped, which panics the task.
PlJobs(l) ==
    /\ SvUp /\ sv.pl[l] = "jobs"
    /\ \E ok \in BOOLEAN :
          sv' = [sv EXCEPT !.pl[l] = IF ok THEN "sleep" ELSE "panicked",
                           !.jfail[l] = @ \/ ~ok]
    /\ UNCHANGED SvRest

\* sleep(20 s), anyhow::Ok(()) (lib.rs:608-612), then the next tick.
PlSleep(l) ==
    /\ SvUp /\ sv.pl[l] = "sleep"
    /\ sv' = [sv EXCEPT !.pl[l] = loop_after("ok")]
    /\ UNCHANGED SvRest

TaskStep(l) ==
    \/ KeepAliveRefresh(l) \/ KeepAliveEnds(l)
    \/ PlGetUsers(l) \/ PlEstablishLocks(l) \/ PlQuery(l) \/ PlJobs(l)
    \/ PlSleep(l)

NextSup ==
    \/ Signal
    \/ Cancel
    \/ \E l \in SupLeases : LeaseTimeout(l)
    \/ SupervisorStep
    \/ \E l \in SupLeases : TaskStep(l)

SpecSup == InitSup /\ [][NextSup]_vars

\* The supervisor task, the cancelling task and every spawned task are
\* scheduled by the runtime while it is up.
FairSpecSup ==
    /\ InitSup /\ [][NextSup]_vars
    /\ WF_vars(SupervisorStep)
    /\ WF_vars(Cancel)
    /\ \A l \in SupLeases : WF_vars(PlGetUsers(l) \/ PlEstablishLocks(l)
                                      \/ PlQuery(l) \/ PlJobs(l) \/ PlSleep(l))

\* C14: within one supervisor iteration the lease is granted, then the
\* membership key is written with it, then the pipeline spawned with that
\* lease claims its locks, then it queries; no pipeline task exists, claims or
\* queries under a lease whose membership Put has not succeeded.
C14_StartupOrder ==
    sv.phase # "off" =>
        \A l \in SupLeases :
            /\ sv.queried[l] => sv.claimed[l]
            /\ sv.claimed[l] => sv.put[l]
            /\ sv.pl[l] # "none" => sv.put[l]
            /\ sv.keep[l] # "none" => sv.put[l]
            /\ sv.put[l] => (l >= 1 /\ l <= sv.granted)

\* The second iteration, after a lost lease, has come as far as its query.
C14_Witness ==
    /\ sv.phase = "select" /\ sv.lease = 2
    /\ sv.handled[1]
    /\ sv.queried[2]

\* C15: once the supervisor has seen the keep-alive task end (LeaseLost), the
\* pipeline that ran under that lease begins no further tick.
C15_TeardownOnLeaseLost ==
    sv.phase # "off" => \A l \in SupLeases : ~sv.tickAfter[l]

\* C16: when the supervisor has left on the shutdown signal and the process
\* has exited, the lease it held is gone from the store, and with it the
\* membership key and the lock keys.
C16_RevokeOnShutdown ==
    (sv.phase # "off" /\ sv.runtime = "down" /\ sv.exitedOn = "token") =>
        /\ ~sv.alive[sv.lease]
        /\ sv.member # sv.lease
        /\ sv.lockLease # sv.lease

\* C17: after a shutdown signal the supervisor task eventually exits, from
\* whatever state it is in.
C17_ExitAfterShutdown ==
    (sv.phase # "off" /\ sv.signal) ~> (sv.phase \in {"exited", "panicked"})

\* C18: after cancellation is broadcast no pipeline task begins a tick or a
\* query and no keep-alive task sends a refresh.
C18_CancellationTimeliness ==
    sv.phase # "off" => ~sv.lateStart

\* C19: a partition query that fails after its retries aborts the tick only:
\* the pipeline task stays alive and the supervisor does not leave over it.
C19_QueryFailureSkipsTick ==
    sv.phase # "off" =>
        \A l \in SupLeases :
            sv.qfail[l] => (sv.pl[l] # "err" /\ sv.exitedOn # "pipeline")

\* C20: a failure while processing one sync job does not abort the tick: the
\* pipeline task stays alive, and so does the supervisor.
C20_JobFailureIsolated ==
    sv.phase # "off" =>
        \A l \in SupLeases :
            sv.jfail[l] => (sv.pl[l] # "panicked" /\ sv.phase # "panicked")

\* ---- The job loop of one pipeline task (lib.rs:526-606)
\* A job is the user_id of its sync record; a user record is the number of the
\* lookup that fetched it, with whether its notion_data is present.
MaxUsers == 2
MaxJobs == 3
MaxTicks == 2
Users == 1..MaxUsers
JobLists == UNION {[1..k -> Users] : k \in 0..MaxJobs}
NoUser == [n |-> 0, notion_data |-> FALSE]

\* let user_creds = HashMap::new() (lib.rs:530), before the first tick.
JbStart ==
    [phase |-> "tick", ticks |-> 0, db_sync_records |-> <<>>, i |-> 0,
     user_creds |-> [u \in Users |-> NoUser],
     lookups |-> [u \in Users |-> 0], fetched |-> 0,
     invoked |-> [k \in 1..MaxJobs |-> 0], open |-> {}]

InitJobs ==
    /\ InitCluster
    /\ node_name = [p \in Procs |-> AllNames[p]]
    /\ leaseCap = MaxLeases
    /\ hist = FALSE
    /\ calc = [op |-> "none"]
    /\ ka = KaOff
    /\ sv = SvOff
    /\ rt = RtOff /\ rn = RnOff /\ qr = QrOff /\ mn = MnOff
    /\ jb = JbStart

JbRest == <<clusterVars, calc, ka, sv, rt, rn, qr, mn>>

\* get_sync_records_for_partitions returned the tick's due jobs (lib.rs:551-555)
\* and the for loop is entered (lib.rs:563).
JbRecords ==
    /\ jb.phase = "tick"
    /\ jb.ticks < MaxTicks
    /\ \E js \in JobLists :
          jb' = [jb EXCEPT !.db_sync_records = js, !.i = 1, !.ticks = @ + 1,
                           !.invoked = [k \in 1..MaxJobs |-> 0],
                           !.phase = IF js = <<>> THEN "sleep" ELSE "job"]
    /\ UNCHANGED JbRest

\* A cache that is never consulted.
cache_miss_Always(user_creds, user_id) == TRUE

\* user_creds.get(&user_id) is None (lib.rs:570-572)
cache_miss(user_creds, user_id) == user_creds[user_id].n = 0

\* The first half of a job: the credentials of its user, from the cache or by
\* get_single_user, whose error panics at unwrap (lib.rs:568-579).
JbCredentials ==
    /\ jb.phase = "job"
    /\ LET user_id == jb.db_sync_records[jb.i]
       IN  IF cache_miss(jb.user_creds, user_id)
           THEN \E ok \in BOOLEAN, notion_data \in BOOLEAN :
                  LET user == [n |-> jb.fetched + 1, notion_data |-> notion_data]
                  IN  jb' = [jb EXCEPT
                              !.lookups[user_id] = @ + 1,
                              !.fetched = @ + 1,
                              !.open = @ \cup {jb.i},
                              !.user_creds[user_id] = IF ok THEN user ELSE @,
                              !.phase = IF ok THEN "notion" ELSE "panicked"]
           ELSE jb' = [jb EXCEPT !.open = @ \cup {jb.i}, !.phase = "notion"]
    /\ UNCHANGED JbRest

\* The second half: notion_data.as_ref().unwrap(), the Notion request and its
\* unwrap, then the reconciliation logic (lib.rs:581-602); the loop goes on to
\* the next job or to the sleep (lib.rs:606-610).
JbReconcile ==
    /\ jb.phase = "notion"
    /\ LET user_id == jb.db_sync_records[jb.i]
           last == jb.i = Len(jb.db_sync_records)
       IN  \E x \in {"ok", "err"} :
             IF jb.user_creds[user_id].notion_data /\ x = "ok"
             THEN jb' = [jb EXCEPT !.invoked[jb.i] = @ + 1,
                                   !.open = @ \ {jb.i},
                                   !.i = IF last THEN @ ELSE @ + 1,
                                   !.phase = IF last THEN "sleep" ELSE "job"]
             ELSE jb' = [jb EXCEPT !.phase = "panicked"]
    /\ UNCHANGED JbRest

\* tokio::time::sleep(20 s) ends (lib.rs:608-610): the next tick.
JbSleep ==
    /\ jb.phase = "sleep"
    /\ jb' = [jb EXCEPT !.phase = "tick"]
    /\ UNCHANGED JbRest

NextJobs == JbRecords \/ JbCredentials \/ JbReconcile \/ JbSleep

SpecJobs == InitJobs /\ [][NextJobs]_vars

\* C21: when a tick is over, the reconciliation logic has been invoked exactly
\* once for every due job the tick's query returned, and at no time are two
\* jobs in processing.
C21_OncePerDueJob ==
    /\ jb.phase \in {"sleep", "panicked"} =>
          \A k \in DOMAIN jb.db_sync_records : jb.invoked[k] = 1
    /\ jb.phase # "off" => Cardinality(jb.open) <= 1

\* C30: the single-user lookup runs only for a user_id absent from the cache
\* and at most once per user_id; a processed job's user is cached; a cached
\* entry is never removed or replaced.
C30_CredentialCache ==
    /\ [](jb.phase # "off" =>
            /\ \A u \in Users : jb.lookups[u] <= 1
            /\ \A k \in DOMAIN jb.db_sync_records :
                  jb.invoked[k] >= 1 => jb.user_creds[jb.db_sync_records[k]].n # 0)
    /\ [][jb.phase # "off" =>
            \A u \in Users :
                /\ jb'.lookups[u] # jb.lookups[u] => jb.user_creds[u].n = 0
                /\ jb.user_creds[u].n # 0 => jb'.user_creds[u] = jb.user_creds[u]]_vars

\* Two jobs of one user were processed in one tick and a later tick met the
\* same user again: one lookup served them all.
C30_Witness ==
    /\ jb.phase = "sleep"
    /\ jb.ticks = 2
    /\ jb.fetched = 1
    /\ \E u \in Users : jb.lookups[u] = 1 /\ jb.user_creds[u].n = 1
    /\ Len(jb.db_sync_records) >= 2
    /\ \A k \in DOMAIN jb.db_sync_records : jb.invoked[k] = 1

\* ---- The retry helpers (lib.rs:283-399), durations in milliseconds
maximum_n_tries == 10
MaxCalls == 19
initial_duration == 5
query_maximum_backoff == 10000
settings_maximum_backoff == 300000
connect_initial_wait == 1000
connect_maximum_wait == 300000

\* The calls the code makes: the partition query (aws.rs:183-190), here with
\* every attempt cap up to the code's; the settings loop (lib.rs:33-39); the
\* store-connect loop (lib.rs:288, 303, 416). maximum_n_tries 0 stands for None.
RetryConfigs ==
    {[helper |-> "do_with_retries", initial_duration |-> initial_duration,
      maximum_backoff |-> query_maximum_backoff, maximum_n_tries |-> m] :
        m \in 1..maximum_n_tries}
    \cup {[helper |-> "do_with_retries_sync", initial_duration |-> initial_duration,
           maximum_backoff |-> settings_maximum_backoff, maximum_n_tries |-> 0],
          [helper |-> "do_with_retries_infinite",
           initial_duration |-> connect_initial_wait,
           maximum_backoff |-> connect_maximum_wait, maximum_n_tries |-> 0]}

\* let mut n_tries = 0; let mut retry_wait_duration = config.initial_duration;
RtStart(config) ==
    [phase |-> "call", config |-> config, n_tries |-> 0,
     retry_wait_duration |-> config.initial_duration,
     calls |-> 0, slept |-> 0, returned |-> 0]

InitRetry ==
    /\ InitCluster
    /\ node_name = [p \in Procs |-> AllNames[p]]
    /\ leaseCap = MaxLeases
    /\ hist = FALSE
    /\ calc = [op |-> "none"]
    /\ ka = KaOff
    /\ sv = SvOff
    /\ rn = RnOff /\ qr = QrOff /\ jb = JbOff /\ mn = MnOff
    /\ rt \in {RtStart(c) : c \in RetryConfigs}

RtRest == <<clusterVars, calc, ka, sv, rn, qr, jb, mn>>

\* A helper that gives up one failure late.
tries_exhausted_Late(n_tries, max) == max # 0 /\ n_tries > max

\* A helper that takes a missing attempt cap for a cap of ten.
tries_exhausted_NoneIsTen(n_tries, max) == n_tries = (IF max = 0 THEN 10 ELSE max)

\* if let Some(max) = config.maximum_n_tries { if n_tries == max {..} }
\* (lib.rs:346-350)
tries_exhausted(n_tries, max) == max # 0 /\ n_tries = max

\* if retry_wait_duration < config.maximum_backoff { retry_wait_duration *= 2 }
\* (lib.rs:353-355, 390-392; 303-305 in seconds)
next_wait(retry_wait_duration, maximum_backoff) ==
    IF retry_wait_duration < maximum_backoff
    THEN retry_wait_duration * 2 ELSE retry_wait_duration

\* f().await and the match on its result (lib.rs:338-360): Ok breaks with the
\* value, the error of the last allowed attempt breaks with that error, any
\* other error goes to the sleep. The k-th call's error is written k.
RtCall ==
    /\ rt.phase = "call"
    /\ rt.calls < MaxCalls
    /\ \E ok \in BOOLEAN :
          LET n == rt.n_tries + 1
          IN  rt' = IF ok
                    THEN [rt EXCEPT !.calls = @ + 1, !.phase = "ok"]
                    ELSE IF tries_exhausted(n, rt.config.maximum_n_tries)
                    THEN [rt EXCEPT !.calls = @ + 1, !.n_tries = n,
                                    !.returned = rt.calls + 1, !.phase = "err"]
                    ELSE [rt EXCEPT !.calls = @ + 1, !.n_tries = n,
                                    !.phase = "sleep"]
    /\ UNCHANGED RtRest

\* tokio::time::sleep(retry_wait_duration), then the next wait (lib.rs:352-355).
RtSleep ==
    /\ rt.phase = "sleep"
    /\ rt' = [rt EXCEPT !.slept = rt.retry_wait_duration,
                        !.retry_wait_duration =
                            next_wait(@, rt.config.maximum_backoff),
                        !.phase = "call"]
    /\ UNCHANGED RtRest

NextRetry == RtCall \/ RtSleep

SpecRetry == InitRetry /\ [][NextRetry]_vars

RECURSIVE Pow2(_)
Pow2(k) == IF k = 0 THEN 1 ELSE 2 * Pow2(k - 1)

Capped == rt.phase # "off" /\ rt.config.maximum_n_tries # 0

\* C22: with a maximum of m >= 1 attempts the operation is invoked at most m
\* times; Ok is returned at the first success and nothing is invoked after
\* it; the error is returned after exactly m failures in a row and is the
\* last one; the partition queries run with m = 10.
C22_BoundedRetry ==
    /\ [](Capped =>
            /\ rt.calls <= rt.config.maximum_n_tries
            /\ rt.phase = "ok" => rt.n_tries = rt.calls - 1
            /\ rt.phase = "err" =>
                  /\ rt.calls = rt.config.maximum_n_tries
                  /\ rt.n_tries = rt.config.maximum_n_tries
                  /\ rt.returned = rt.config.maximum_n_tries
            /\ (rt.n_tries = rt.config.maximum_n_tries) => rt.phase = "err")
    /\ [][Capped /\ rt.phase \in {"ok", "err"} => rt' = rt]_vars
    /\ \E c \in RetryConfigs :
          c.helper = "do_with_retries" /\ c.maximum_n_tries = 10

\* The partition query failed ten times.
C22_Witness ==
    /\ Capped
    /\ rt.config.maximum_n_tries = maximum_n_tries
    /\ rt.phase = "err"
    /\ rt.calls = 10

\* C23: the wait before the next attempt is the initial value, doubled once
\* for each failure after the first, and never more than the maximum backoff.
C23_CappedBackoff ==
    (rt.phase = "sleep") =>
        /\ rt.retry_wait_duration <= rt.config.maximum_backoff
        /\ \/ rt.retry_wait_duration =
                rt.config.initial_duration * Pow2(rt.n_tries - 1)
           \/ rt.retry_wait_duration = rt.config.maximum_backoff

\* ---- run (lib.rs:27-128) with do_some_stuff_with_etcd_and_init (lib.rs:409-429)
\* exit: how run ended; shutdown_seen: a select! arm on the shutdown channel
\* was taken.
RnStart ==
    [phase |-> "settings", signal |-> FALSE, shutdown_seen |-> FALSE,
     etcd_url |-> FALSE, calls |-> 0,
     retry_wait_duration |-> initial_duration, exit |-> "none"]

InitRun ==
    /\ InitCluster
    /\ node_name = [p \in Procs |-> AllNames[p]]
    /\ leaseCap = MaxLeases
    /\ hist = FALSE
    /\ calc = [op |-> "none"]
    /\ ka = KaOff
    /\ sv = SvOff
    /\ rt = RtOff /\ qr = QrOff /\ jb = JbOff /\ mn = MnOff
    /\ rn = RnStart

RnRest == <<clusterVars, calc, ka, sv, rt, qr, jb, mn>>
RnRunning == rn.phase \in {"settings", "settings_sleep", "connect", "connect_sleep",
                           "supervise"}

\* SIGTERM or SIGINT: tx.send(()) (main.rs:195-205).
RnSignal ==
    /\ RnRunning
    /\ ~rn.signal
    /\ rn' = [rn EXCEPT !.signal = TRUE]
    /\ UNCHANGED RnRest

\* result_of_work.expect("Should have a join handle ...") (lib.rs:121-122)
join_handle_or_exit(result_of_work) == IF result_of_work THEN "await" ELSE "panic"

\* One attempt of the first select! arm (lib.rs:28-51, 54-56): set_up_logging
\* (its error panics at result.unwrap()), then get_settings under
\* do_with_retries_sync. With the settings, run goes on to the store
\* (lib.rs:64-84) or, without an etcd endpoint, to the expect of lib.rs:122.
RnSettings ==
    /\ rn.phase = "settings"
    /\ rn.calls < MaxCalls
    /\ \E r \in {"logging_err", "err", "ok", "ok_no_etcd"} :
          /\ r = "logging_err" => rn.calls = 0
          /\ rn' = CASE r = "logging_err" ->
                          [rn EXCEPT !.phase = "ended", !.exit = "panic"]
                     [] r = "err" ->
                          [rn EXCEPT !.phase = "settings_sleep", !.calls = @ + 1]
                     [] r = "ok" ->
                          [rn EXCEPT !.phase = "connect", !.etcd_url = TRUE,
                                     !.calls = 0,
                                     !.retry_wait_duration = connect_initial_wait]
                     [] OTHER ->
                          [rn EXCEPT !.phase = "ended",
                                     !.exit = join_handle_or_exit(FALSE)]
    /\ UNCHANGED RnRest

\* The sleep of do_with_retries_sync (lib.rs:389-392).
RnSettingsSleep ==
    /\ rn.phase = "settings_sleep"
    /\ rn' = [rn EXCEPT !.phase = "settings",
                        !.retry_wait_duration =
                            next_wait(@, settings_maximum_backoff)]
    /\ UNCHANGED RnRest

\* The second select! arm (lib.rs:57-61): settings_map is None, the if of
\* lib.rs:64 is skipped and run returns Ok(()).
RnShutdownInSettings ==
    /\ rn.phase \in {"settings", "settings_sleep"}
    /\ rn.signal
    /\ rn' = [rn EXCEPT !.phase = "ended", !.shutdown_seen = TRUE, !.exit = "ok"]
    /\ UNCHANGED RnRest

\* One attempt of EtcdClients::connect under do_with_retries_infinite
\* (lib.rs:416, 290-308); connected, the supervisor is spawned and its
\* JoinHandle returned (lib.rs:422-428).
RnConnect ==
    /\ rn.phase = "connect"
    /\ rn.calls < MaxCalls
    /\ \E ok \in BOOLEAN :
          rn' = IF ok THEN [rn EXCEPT !.phase = "supervise"]
                ELSE [rn EXCEPT !.phase = "connect_sleep", !.calls = @ + 1]
    /\ UNCHANGED RnRest

\* The sleep of do_with_retries_infinite (lib.rs:302-305).
RnConnectSleep ==
    /\ rn.phase = "connect_sleep"
    /\ rn' = [rn EXCEPT !.phase = "connect",
                        !.retry_wait_duration = next_wait(@, connect_maximum_wait)]
    /\ UNCHANGED RnRest

\* The shutdown arm of do_some_stuff_with_etcd_and_init (lib.rs:417): no
\* clients, ok_or(..)? returns Err (lib.rs:420), run logs it and keeps
\* result.ok() = None (lib.rs:86-94), then comes to lib.rs:121-122.
RnShutdownInConnect ==
    /\ rn.phase \in {"connect", "connect_sleep"}
    /\ rn.signal
    /\ rn' = [rn EXCEPT !.phase = "ended", !.shutdown_seen = TRUE,
                        !.exit = join_handle_or_exit(FALSE)]
    /\ UNCHANGED RnRest

\* result_of_work_join_handle.await? (lib.rs:124): the supervisor task ended.
\* It returns () from its token arm (lib.rs:498-501) or after a pipeline error
\* (lib.rs:485-497), and panics at its expect (lib.rs:487).
RnJoin ==
    /\ rn.phase = "supervise"
    /\ \E end \in {"token", "pipeline_err", "panic"} :
          /\ end = "token" => rn.signal
          /\ rn' = [rn EXCEPT !.phase = "ended",
                              !.shutdown_seen = (end = "token"),
                              !.exit = IF end = "panic" THEN "err" ELSE "ok"]
    /\ UNCHANGED RnRest

NextRun ==
    \/ RnSignal
    \/ RnSettings
    \/ RnSettingsSleep
    \/ RnShutdownInSettings
    \/ RnConnect
    \/ RnConnectSleep
    \/ RnShutdownInConnect
    \/ RnJoin

SpecRun == InitRun /\ [][NextRun]_vars

\* C24: a run that ended on the shutdown signal, in whichever state the signal
\* found it, returned normally (exit code 0).
C24_GracefulExitCode ==
    (rn.phase = "ended" /\ rn.shutdown_seen) => rn.exit = "ok"

\* ---- C25
\* C25: when the lease grant or the membership Put fails, the supervisor's
\* match spawns no task and goes to the 5 s backoff, and the backoff leads
\* back to the lease grant; a pipeline task exists only for a lease under
\* which the membership Put has succeeded.
C25_InitFailureBackoff ==
    /\ [](sv.phase # "off" =>
            \A l \in SupLeases : sv.pl[l] # "none" => (l # 0 /\ sv.put[l]))
    /\ [][sv.phase # "off" =>
            /\ (sv.phase = "init_grant" /\ sv'.phase = "match") => sv'.result = "err"
            /\ (sv.phase = "init_put" /\ sv'.phase = "match" /\ sv'.member = sv.member
                    /\ sv'.put = sv.put) => sv'.result = "err"
            /\ (sv.phase = "match" /\ sv.result = "err" /\ sv'.phase # "match") =>
                  /\ sv'.phase = "backoff"
                  /\ sv'.keep = sv.keep
                  /\ sv'.pl = sv.pl
            /\ (sv.phase = "backoff" /\ sv'.phase # "backoff") =>
                  sv'.phase = "init_grant"]_vars

\* The grant succeeded, the Put failed: the supervisor waits in its backoff
\* and no task has been spawned.
C25_Witness ==
    /\ sv.phase = "backoff"
    /\ sv.result = "err"
    /\ sv.granted = 1
    /\ \A l \in SupLeases : sv.keep[l] = "none" /\ sv.pl[l] = "none"

\* ---- C26
\* ReleaseTxn(p) has just run on partition Min(todo[p]).
ReleaseStep(p) ==
    /\ pc[p] = "release"
    /\ pc'[p] \in {"release", "claim", "read"}
    /\ todo'[p] # todo[p]

\* C26: a release transaction deletes the lock exactly when the lock's value
\* is the releasing node's node_id; a lock of another node and an absent lock
\* stay as they are, and no other lock is touched.
C26_OwnerOnlyRelease ==
    [][\A p \in Procs : ReleaseStep(p) =>
          LET n == Min(todo[p])
          IN  /\ locks[n].value = node_name[p] => locks'[n] = NoLock
              /\ locks[n].value # node_name[p] => locks'[n] = locks[n]
              /\ \A m \in Partitions \ {n} : locks'[m] = locks[m]]_vars

\* A node is through its release loop: a lock it had confirmed and should no
\* longer own is gone, and a lock of another node outside its shard stands.
C26_Witness ==
    \E p \in Procs :
        /\ pc[p] \in {"claim", "read"}
        /\ \E m \in confirmed[p] \ shouldOwn[p] : locks[m] = NoLock
        /\ \E n \in Partitions \ shouldOwn[p] :
              locks[n].value \notin {"", node_name[p]}

\* ---- C27
\* C27: a claim transaction on a lock that exists changes nothing in the store
\* and the claiming pipeline goes on as after a success; a lock that has an
\* owner changes only by being deleted, through a release run under the
\* owner's node_id or through the end of the lease it is bound to.
C27_ClaimLeavesOwner ==
    [][/\ \A p \in Procs :
            (ClaimStep(p) /\ locks[Min(todo[p])].version # 0) =>
                /\ locks' = locks
                /\ sup'[p] = "running"
       /\ \A n \in Partitions :
            (locks[n].value # "" /\ locks'[n] # locks[n]) =>
                /\ locks'[n] = NoLock
                /\ \/ \E p \in Procs : /\ ReleaseStep(p)
                                       /\ Min(todo[p]) = n
                                       /\ node_name[p] = locks[n].value
                   \/ /\ leases[locks[n].lease] # 0
                      /\ leases'[locks[n].lease] = 0]_vars

\* A node is through its claim loop and one of the partitions of its shard is
\* still the lock of another node, under that node's lease.
C27_Witness ==
    \E p \in Procs :
        /\ pc[p] = "read"
        /\ \E n \in shouldOwn[p] \cap lost[p] :
              /\ locks[n].value \notin {"", node_name[p]}
              /\ locks[n].lease # lease[p]

\* ---- C28
\* ReadMembers(p) has just run.
MembersStep(p) == pc[p] = "tick" /\ pc'[p] \notin {"tick", "none"}

\* C28: a node whose key is not in the membership snapshot goes straight to
\* its query with the empty confirmed set: its run contains no release and no
\* claim and leaves the store as it is, whatever locks carry its node_id.
C28_AbsentFromSnapshot ==
    [][\A p \in Procs :
          (MembersStep(p) /\ nodeKeys[node_name[p]] = 0) =>
              /\ confirmed'[p] = {}
              /\ shouldOwn'[p] = {}
              /\ pc'[p] = "query"
              /\ locks' = locks]_vars

\* The node came from such a snapshot to its query while the store holds a
\* lock with its node_id, bound to its own lease.
C28_Witness ==
    \E p \in Procs :
        /\ pc[p] = "query"
        /\ shouldOwn[p] = {}
        /\ confirmed[p] = {}
        /\ nodeKeys[node_name[p]] = 0
        /\ \E n \in Partitions :
              locks[n].value = node_name[p] /\ locks[n].lease = lease[p]

\* ---- get_sync_records_for_partitions (aws.rs:163-210)
\* The input is a list of distinct partitions; a record is written
\* <<partition, k>>, the k-th record of that partition's query result.
MaxInput == 2
MaxRecords == 2
QueryInputs ==
    UNION {{f \in [1..k -> Partitions] : \A i, j \in 1..k : i # j => f[i] # f[j]} :
              k \in 0..MaxInput}
Tasks == 1..MaxInput
NoTask == [state |-> "none", partition |-> 0, n |-> 0]

RECURSIVE RecordsOf(_, _)
RecordsOf(partition, n) ==
    IF n = 0 THEN <<>> ELSE Append(RecordsOf(partition, n - 1), <<partition, n>>)

\* let mut set = JoinSet::new() (aws.rs:169); sync_records is created at
\* aws.rs:197, before the first join.
QrStart(partitions) ==
    [phase |-> "spawn", partitions |-> partitions, next |-> 1,
     set |-> [t \in Tasks |-> NoTask], sync_records |-> <<>>,
     returned |-> <<>>]

InitQuery ==
    /\ InitCluster
    /\ node_name = [p \in Procs |-> AllNames[p]]
    /\ leaseCap = MaxLeases
    /\ hist = FALSE
    /\ calc = [op |-> "none"]
    /\ ka = KaOff
    /\ sv = SvOff
    /\ rt = RtOff /\ rn = RnOff /\ jb = JbOff /\ mn = MnOff
    /\ qr \in {QrStart(ps) : ps \in QueryInputs}

QrRest == <<clusterVars, calc, ka, sv, rt, rn, jb, mn>>

\* for i in partitions { interval.tick().await; set.spawn(..) } (aws.rs:176-195),
\* one iteration; after the last one the joining starts (aws.rs:197-199).
QrSpawn ==
    /\ qr.phase = "spawn"
    /\ IF qr.next > Len(qr.partitions)
       THEN qr' = [qr EXCEPT !.phase = "join"]
       ELSE qr' = [qr EXCEPT
                      !.set[qr.next] = [state |-> "running",
                                        partition |-> qr.partitions[qr.next],
                                        n |-> 0],
                      !.next = @ + 1]
    /\ UNCHANGED QrRest

\* A spawned task ends: do_with_retries around get_sync_records_for_one_partition
\* returned the partition's records, or the error of its last attempt
\* (aws.rs:182-192).
QrTaskEnds(t) ==
    /\ qr.phase \in {"spawn", "join"}
    /\ qr.set[t].state = "running"
    /\ \/ \E n \in 0..MaxRecords :
             qr' = [qr EXCEPT !.set[t].state = "ok", !.set[t].n = n]
       \/ qr' = [qr EXCEPT !.set[t].state = "failed"]
    /\ UNCHANGED QrRest

\* A join that keeps only the result it has just received.
append_Replace(sync_records, result) == result

\* sync_records.append(&mut result) (aws.rs:201)
append(sync_records, result) == sync_records \o result

\* while let Some(res) = set.join_next().await { res.unwrap()? ... }
\* (aws.rs:199-202): the result of any ended task that is still in the set;
\* an Err returns at once and the set, dropped, aborts the tasks left in it.
\* With the set empty the function returns Ok(sync_records) (aws.rs:209).
QrJoinNext ==
    /\ qr.phase = "join"
    /\ IF \A t \in Tasks : qr.set[t].state \in {"none", "joined"}
       THEN qr' = [qr EXCEPT !.phase = "ok", !.returned = qr.sync_records]
       ELSE \E t \in Tasks :
              /\ qr.set[t].state \in {"ok", "failed"}
              /\ qr' = IF qr.set[t].state = "ok"
                       THEN [qr EXCEPT
                               !.set[t].state = "joined",
                               !.sync_records =
                                   append(@, RecordsOf(qr.set[t].partition,
                                                       qr.set[t].n))]
                       ELSE [qr EXCEPT
                               !.phase = "err",
                               !.set = [u \in Tasks |->
                                          IF qr.set[u].state = "running"
                                          THEN [qr.set[u] EXCEPT !.state = "aborted"]
                                          ELSE qr.set[u]]]
    /\ UNCHANGED QrRest

NextQuery == QrSpawn \/ (\E t \in Tasks : QrTaskEnds(t)) \/ QrJoinNext

SpecQuery == InitQuery /\ [][NextQuery]_vars

Occurrences(seq, x) == Cardinality({i \in DOMAIN seq : seq[i] = x})

\* C29: once the spawning is done there is exactly one task for each partition
\* of the input; an Ok return happens with every query succeeded and holds
\* each record of each partition's result once and nothing else; an Err return
\* happens with a failed query and carries no record.
C29_QueryFanOut ==
    /\ qr.phase \in {"join", "ok", "err"} =>
          /\ \A i \in DOMAIN qr.partitions :
                /\ qr.set[i].state # "none"
                /\ qr.set[i].partition = qr.partitions[i]
          /\ \A t \in Tasks \ DOMAIN qr.partitions : qr.set[t].state = "none"
    /\ qr.phase = "ok" =>
          /\ \A i \in DOMAIN qr.partitions :
                /\ qr.set[i].state = "joined"
                /\ \A k \in 1..qr.set[i].n :
                      Occurrences(qr.returned, <<qr.partitions[i], k>>) = 1
          /\ \A j \in DOMAIN qr.returned :
                \E i \in DOMAIN qr.partitions :
                    /\ qr.returned[j][1] = qr.partitions[i]
                    /\ qr.returned[j][2] \in 1..qr.set[i].n
    /\ qr.phase = "err" =>
          /\ \E t \in Tasks : qr.set[t].state = "failed"
          /\ qr.returned = <<>>
    /\ (qr.phase # "off" /\ \E t \in Tasks : qr.set[t].state = "failed") =>
          qr.phase # "ok"

\* Two partitions were queried, both results had records, and all of them
\* are in the list returned.
C29_Witness ==
    /\ qr.phase = "ok"
    /\ Len(qr.partitions) = 2
    /\ \A i \in DOMAIN qr.partitions : qr.set[i].n >= 1
    /\ Len(qr.returned) >= 3

\* ---- C39
Shard(i) == SeqRange(sync_records_to_claim(i, calc.w, calc.total))

\* C39: for W workers and P partitions of one snapshot the shards of the
\* indices 0..W-1 are pairwise disjoint and together are [0,P); the shard
\* computed for an index i >= P is empty.
C39_ShardsPartition ==
    (calc.op = "shard" /\ calc.done) =>
        /\ calc.out = sync_records_to_claim(calc.i, calc.w, calc.total)
        /\ \A i, j \in 0..(calc.w - 1) : i # j => Shard(i) \cap Shard(j) = {}
        /\ UNION {Shard(i) : i \in 0..(calc.w - 1)} = 0..(calc.total - 1)
        /\ calc.i >= calc.total => calc.out = <<>>

\* More workers than partitions: the last of five workers gets nothing of
\* three partitions.
C39_Witness ==
    /\ calc.op = "shard" /\ calc.done
    /\ calc.w = 5 /\ calc.total = 3 /\ calc.i = 4
    /\ calc.out = <<>>

\* ---- C40
\* C40: after a response with remaining TTL ttl > 0 the wait is at least 0 and
\* less than ttl, so the sleep ends before ttl seconds have passed since the
\* instant taken before the request.
C40_WaitBelowTtl ==
    ka.phase = "sleep" =>
        /\ ka.ttl > 0
        /\ ka.wait >= 0
        /\ ka.wait < ka.ttl
        /\ sleep_deadline(ka.instant_before_request, ka.now, ka.wait)
              < ka.instant_before_request + ka.ttl

\* The shortest TTL a response can report: the loop does not wait at all.
C40_Witness ==
    /\ ka.phase = "sleep"
    /\ ka.ttl = 1
    /\ ka.wait = 0

\* ---- C33
Uncapped == rt.phase # "off" /\ rt.config.maximum_n_tries = 0

\* C33: a retry helper called without an attempt cap never returns an error:
\* every failed invocation is followed by the sleep and another invocation,
\* and the helper returns at the first success.
C33_UncappedNeverFails ==
    /\ [](Uncapped =>
            /\ rt.phase # "err"
            /\ rt.returned = 0
            /\ rt.calls = rt.n_tries + (IF rt.phase = "ok" THEN 1 ELSE 0))
    /\ [][Uncapped =>
            /\ (rt.phase = "call" /\ rt'.n_tries # rt.n_tries) => rt'.phase = "sleep"
            /\ (rt.phase = "call" /\ rt'.n_tries = rt.n_tries /\ rt' # rt) =>
                  rt'.phase = "ok"
            /\ (rt.phase = "sleep" /\ rt' # rt) => rt'.phase = "call"
            /\ rt.phase = "ok" => rt' = rt]_vars

\* Settings loading succeeded at its twelfth attempt.
C33_Witness ==
    /\ Uncapped
    /\ rt.config.helper = "do_with_retries_sync"
    /\ rt.phase = "ok"
    /\ rt.calls = 12

\* ---- C31: lease_keep_alive and start_sync_pipeline never return a success
\* value (their return type is Result<Infallible>): a task that has stopped
\* running has returned an error, has panicked or was dropped with the
\* runtime, and a task that goes on after a tick or a refresh is in its loop.
PlLoop == {"start", "locks", "query", "jobs", "sleep"}
PlStopped == {"err", "panicked", "dropped"}
KeepStopped == {"ended", "dropped"}

C31_NeverReturnsOk ==
    /\ [](sv.phase # "off" =>
             \A l \in SupLeases :
                /\ sv.pl[l] \in {"none"} \cup PlLoop \cup PlStopped
                /\ sv.keep[l] \in {"none", "running"} \cup KeepStopped
                /\ sv.pl[l] = "err" =>
                       (sv.qfail[l] \/ (~sv.claimed[l] /\ ~sv.queried[l])))
    /\ [][sv.phase # "off" =>
             \A l \in SupLeases :
                /\ (sv.pl[l] \in PlLoop /\ sv'.pl[l] # sv.pl[l])
                       => sv'.pl[l] \in PlLoop \cup PlStopped
                /\ (sv.pl[l] = "sleep" /\ sv'.pl[l] # "sleep")
                       => sv'.pl[l] \in {"locks", "dropped"}
                /\ sv.pl[l] \in PlStopped => sv'.pl[l] = sv.pl[l]
                /\ (sv.keep[l] = "running" /\ sv'.keep[l] # "running")
                       => sv'.keep[l] \in KeepStopped
                /\ sv.keep[l] \in KeepStopped => sv'.keep[l] = sv.keep[l]]_vars

C31_Witness ==
    \E l \in SupLeases :
        /\ sv.keep[l] = "ended"
        /\ sv.pl[l] = "err"
        /\ sv.tickAfter[l]
        /\ sv.qfail[l]

\* ---- C35: at any time at most one pipeline task and at most one keep-alive
\* task of the node are running, and the supervisor spawns a new pair only
\* when no task of an earlier pair is running.
PlRunning == {l \in SupLeases : sv.pl[l] \in PlLoop}
KeepRunning == {l \in SupLeases : sv.keep[l] = "running"}

C35_OnePair ==
    /\ [](sv.phase # "off" =>
             (Cardinality(PlRunning) <= 1 /\ Cardinality(KeepRunning) <= 1))
    /\ [][(sv.phase = "match" /\ sv'.phase = "select")
             => (PlRunning = {} /\ KeepRunning = {})]_vars

\* ---- C36: once the supervisor loop has exited, through the pipeline arm or
\* through the token arm, the node sends no further keep-alive request.
C36_NoRefreshAfterExit ==
    sv.phase # "off" => ~sv.lateRefresh

\* ---- C37: the locks of the node are bound to the lease of its membership
\* key, and a pipeline runs the Balancer only with the lease most recently
\* granted to and registered by the node.
Registered == {l \in SupLeases : sv.put[l]}
LatestRegistered ==
    IF Registered = {} THEN 0
    ELSE CHOOSE l \in Registered : \A m \in Registered : m <= l

C37_LocksUnderMemberLease ==
    /\ [](sv.phase # "off" => (sv.lockLease # 0 => sv.lockLease = sv.member))
    /\ [][\A l \in SupLeases :
             (sv.pl[l] = "locks" /\ sv'.pl[l] = "query")
                 => l = LatestRegistered]_vars

\* ---- C32: whenever the keep-alive task of the supervisor's current lease
\* has ended with an error and no shutdown was signalled, the node eventually
\* registers under a newer lease, unless a shutdown is signalled or the store
\* fails the next initialisation.
C32_RecoversAfterLeaseLoss ==
    \A l \in SupLeases :
        (sv.phase = "select" /\ sv.lease = l /\ sv.keep[l] = "ended"
            /\ ~sv.signal)
          ~> \/ sv.signal
             \/ \E m \in SupLeases : m > l /\ sv.put[m]
             \/ sv.phase = "backoff" /\ sv.result = "err"

\* ---- C38: a fleet in which the lease of a running node can run out
\* The keep-alive of running process p fails while its pipeline is between
\* the Balancer's read and the partition queries (lib.rs:544-555): the TTL
\* runs out, the store removes the lease and every key attached to it. The
\* pipeline task is not told and goes on with the locks it has read.
LeaseLost(p) ==
    /\ sup[p] = "running"
    /\ pc[p] = "query"
    /\ lease[p] # 0 /\ leases[lease[p]] = p
    /\ leases' = [leases EXCEPT ![lease[p]] = 0]
    /\ nodeKeys' = [nm \in Names |->
                       IF nodeKeys[nm] = lease[p] THEN 0 ELSE nodeKeys[nm]]
    /\ locks' = [n \in Partitions |->
                    IF locks[n].lease = lease[p] THEN NoLock ELSE locks[n]]
    /\ holders' = Rec([n \in Partitions |->
                          IF locks[n].lease = lease[p] THEN {} ELSE holders[n]],
                      holders)
    /\ FleetChange
    /\ UNCHANGED <<nextLease, leaseCap, procVars, lost, calc, ka, sv, auxVars>>

NextExpiry ==
    \/ Next
    \/ \E p \in Procs : LeaseLost(p)

SpecExpiry == InitPlain /\ [][NextExpiry]_vars

\* C38: no two running nodes are querying or processing the jobs of the same
\* partition at the same time, also when the lease of one of them runs out
\* during its tick.
C38_NoConcurrentProcessing ==
    \A p, q \in Live :
        (p # q /\ pc[p] = "query" /\ pc[q] = "query")
            => query_input(p) \cap query_input(q) = {}

\* ---- The main function and its background tasks (main.rs:16-234)
\* Seconds of sleep of the two some_operation tasks and of the members loop.
op1_duration == 40
op2_duration == 30
members_sleep == 20
\* Longest stretch of time, in seconds, that passes in one step.
MaxDelay == 10
\* Seconds after the broadcast for which the clock is followed.
MaxClock == 45

Ops == {"op1", "op2"}
MainTasks == Ops \cup {"rx2"}
duration(t) ==
    IF t = "op1" THEN op1_duration
    ELSE IF t = "op2" THEN op2_duration ELSE members_sleep

\* The state after the spawns (main.rs:99-109, 183-193): every task holds a
\* clone of rx; the members task exists when the store was reached.
MnStart(etcd) ==
    [phase |-> "signals",     \* main: signals, sent, closing, complete
     version |-> 0,           \* the watch channel's version
     receivers |-> {"rx", "op1", "op2"} \cup (IF etcd THEN {"rx2"} ELSE {}),
     task |-> [t \in MainTasks |->
                  IF t \in Ops THEN "sleep" ELSE IF etcd THEN "select" ELSE "none"],
     seen |-> [t \in MainTasks |-> 0],   \* version each clone has seen
     timer |-> [t \in Ops |-> duration(t)], \* seconds left of the sleep
     since |-> 0,             \* seconds since tx.send
     endedAt |-> [t \in MainTasks |-> 0]]  \* `since` when the task ended

InitMain ==
    /\ InitCluster
    /\ node_name = [p \in Procs |-> AllNames[p]]
    /\ leaseCap = MaxLeases
    /\ hist = FALSE
    /\ calc = [op |-> "none"]
    /\ ka = KaOff
    /\ sv = SvOff
    /\ rt = RtOff /\ rn = RnOff /\ qr = QrOff /\ jb = JbOff
    /\ \E etcd \in BOOLEAN : mn = MnStart(etcd)

MnRest == <<clusterVars, calc, ka, sv, rt, rn, qr, jb>>

\* A receiver that never sees the channel change.
has_changed_Never(version, seen) == FALSE

\* watch::Receiver::has_changed and changed (main.rs:90, 188).
has_changed(version, seen) == version # seen

\* A sender for which closed() resolves at once.
closed_Always(receivers) == TRUE

\* watch::Sender::closed resolves when every receiver is dropped (main.rs:213).
closed(receivers) == receivers = {}

MnAlive == {t \in MainTasks : mn.task[t] \in {"sleep", "select"}}

\* Time passes: no sleep is over and no ready task is waiting to be polled.
MnElapse(d) ==
    /\ mn.phase # "off"
    /\ MnAlive # {}
    /\ \A t \in Ops : mn.task[t] = "sleep" => mn.timer[t] >= d
    /\ ~(mn.task["rx2"] = "select" /\ has_changed(mn.version, mn.seen["rx2"]))
    /\ mn.version # 0 => mn.since + d <= MaxClock
    /\ mn' = [mn EXCEPT
                 !.timer = [t \in Ops |-> IF mn.task[t] = "sleep"
                                          THEN mn.timer[t] - d ELSE mn.timer[t]],
                 !.since = IF mn.version # 0 THEN @ + d ELSE @]
    /\ UNCHANGED MnRest

\* some_operation (main.rs:82-97): the sleep is over; break when the channel
\* has changed, which drops the receiver, otherwise sleep again.
MnWake(t) ==
    /\ mn.phase # "off"
    /\ mn.task[t] = "sleep" /\ mn.timer[t] = 0
    /\ mn' = IF has_changed(mn.version, mn.seen[t])
             THEN [mn EXCEPT !.task[t] = "ended",
                             !.receivers = @ \ {t},
                             !.endedAt[t] = mn.since]
             ELSE [mn EXCEPT !.timer[t] = duration(t)]
    /\ UNCHANGED MnRest

\* The select! of the members task (main.rs:186-191): rx2.changed() resolves,
\* the members loop is dropped and the task ends.
MnChanged ==
    /\ mn.phase # "off"
    /\ mn.task["rx2"] = "select"
    /\ has_changed(mn.version, mn.seen["rx2"])
    /\ mn' = [mn EXCEPT !.task["rx2"] = "ended",
                        !.receivers = @ \ {"rx2"},
                        !.endedAt["rx2"] = mn.since]
    /\ UNCHANGED MnRest

\* SIGTERM or SIGINT, then tx.send(()) (main.rs:195-205).
MnSend ==
    /\ mn.phase = "signals"
    /\ mn' = [mn EXCEPT !.version = @ + 1, !.phase = "sent"]
    /\ UNCHANGED MnRest

\* drop(rx) (main.rs:212)
MnDropRx ==
    /\ mn.phase = "sent"
    /\ mn' = [mn EXCEPT !.receivers = @ \ {"rx"}, !.phase = "closing"]
    /\ UNCHANGED MnRest

\* tx.closed().await, then "Shutdown complete!" (main.rs:213-231)
MnClosed ==
    /\ mn.phase = "closing"
    /\ closed(mn.receivers)
    /\ mn' = [mn EXCEPT !.phase = "complete"]
    /\ UNCHANGED MnRest

NextMain ==
    \/ \E d \in 1..MaxDelay : MnElapse(d)
    \/ \E t \in Ops : MnWake(t)
    \/ MnChanged
    \/ MnSend
    \/ MnDropRx
    \/ MnClosed

SpecMain == InitMain /\ [][NextMain]_vars

\* C34: the shutdown is broadcast on the watch channel after the signal;
\* main reports the shutdown complete only when every clone of the receiver
\* has been dropped, that is when every background task has ended; and a
\* task that has not ended is within one of its sleep periods of the
\* broadcast, a task that has ended ended within it.
C34_ShutdownWaitsForTasks ==
    mn.phase # "off" =>
        /\ (mn.phase \in {"sent", "closing", "complete"}) <=> (mn.version = 1)
        /\ mn.phase = "complete" => (mn.receivers = {} /\ MnAlive = {})
        /\ \A t \in MainTasks :
              /\ t \in MnAlive => t \in mn.receivers
              /\ (t \in MnAlive /\ mn.version = 1) => mn.since <= duration(t)
              /\ (t \in Ops /\ mn.task[t] = "sleep" /\ mn.version = 1)
                     => mn.since + mn.timer[t] <= duration(t)
              /\ mn.task[t] = "ended"
                     => (mn.version = 1 /\ mn.endedAt[t] <= duration(t))

C34_Witness ==
    /\ mn.phase = "complete"
    /\ mn.task["rx2"] = "ended"
    /\ mn.endedAt["op1"] = op1_duration
    /\ mn.endedAt["op2"] = op2_duration

====
